---- MODULE Spec2Model ----
(***************************************************************************)
(* Model of the parking data collector                                     *)
(* (realtime_plots_from_sql/data_collector/src/scripts/collect_data.py):   *)
(* the poll loop of main, the differ collect_changes over the in-memory    *)
(* df_state, and the PostgreSQL sink write_to_postgresql.                  *)
(***************************************************************************)
EXTENDS Integers, Sequences, FiniteSets, TLC

VARIABLES
    pc,            \* position of main
    password,      \* PGSQL_CONFIG_DICT['password'] is set (truthy)
    conn,          \* the connection handle: "unbound", "open", "closed"
    request_id,    \* main's request_id
    df_state,      \* main's df_state: the rows of the state DataFrame, in order
    tmp_files,     \* content of OUTPUT_PATH: set of [name, data]
    batch_df,      \* main's batch_df: [columns, rows]
    changes_list,  \* main's changes_list
    db,            \* the database: [table, txn] (committed rows, rows of the open transaction)
    error,         \* the exception raised in the current tick, "none" if none
    response,      \* the outcome of the current tick's request: "none", "raised", "not200", "ok200"
    tick0,         \* history: df_state and table when the current tick started
    prev_lost,     \* history: the previous tick ended with a failed persist
    lost,          \* history: some persist of this run failed
    calls,         \* history: number of collect_changes calls made with batch_df (differ harness)
    plot_pc,       \* position of the plotter's main (plot_realtime.py)
    database_connection_error_count,   \* the plotter's main: its local of that name
    query_result,  \* the plotter: what create_engine / pd.read_sql_query did last
    df_realtime,   \* the plotter: the frame of the last successful get_realtime_dataframe
    plot_error     \* the plotter: the exception raised last, "none" if none

plotter_vars == <<plot_pc, database_connection_error_count, query_result, df_realtime,
                  plot_error>>

vars == <<pc, password, conn, request_id, df_state, tmp_files, batch_df,
          changes_list, db, error, response, tick0, prev_lost, lost, calls,
          plot_pc, database_connection_error_count, query_result, df_realtime,
          plot_error>>

----------------------------------------------------------------------------
(* Bounds of the model *)

MaxBatchLen == 2      \* longest batch handed to collect_changes by the differ harness
MaxRequestId == 2     \* the loop is followed while request_id <= MaxRequestId

(* Program constants *)

CEILING == 30         \* validate_df_state_length: more than 30 rows is fatal
NaN == -1             \* the missing value pandas puts where a record has no value

REQUIRED_COLUMNS_SET ==
    {"mv:currentValue", "ferme", "Parking_schema:identifier", "dct:date"}

----------------------------------------------------------------------------
(* Inputs: what the feed can return *)

AvailValues == {0, 1}
Dates == {1, 2}

\* One upstream record; has_value = FALSE leaves mv:currentValue out of it.
RawRecord(id, closed, has_value, avail, date) ==
    LET keys == IF has_value THEN REQUIRED_COLUMNS_SET
                ELSE REQUIRED_COLUMNS_SET \ {"mv:currentValue"}
    IN [k \in keys |->
          CASE k = "Parking_schema:identifier" -> id
            [] k = "ferme" -> closed
            [] k = "mv:currentValue" -> avail
            [] k = "dct:date" -> date]

RawRecords(ids, date) ==
    {RawRecord(id, closed, TRUE, avail, date) :
        id \in ids, closed \in BOOLEAN, avail \in AvailValues}
    \cup {RawRecord(id, closed, FALSE, 0, date) : id \in ids, closed \in BOOLEAN}

SeqsUpTo(S, n) == UNION {[1 .. k -> S] : k \in 0 .. n}

\* The feed of the poll loop.  The facility of OddIds reports alone, with
\* any reading that has a value, or without a value next to the facility of
\* AnchorIds, which is always open with the same value; the fleet is the
\* other facilities, one more than the ceiling in all, reporting together.
\* The records of a snapshot carry the time of the snapshot.
OddIds == {1}
AnchorIds == {2}
FleetIds == 3 .. (CEILING + 1)

FleetPayload(date) ==
    LET first == CHOOSE x \in FleetIds : \A y \in FleetIds : x <= y
    IN [i \in 1 .. Cardinality(FleetIds) |->
          RawRecord(first + i - 1, FALSE, TRUE, 0, date)]

\* A payload whose records all lack column c (schema drift).
DropColumn(payload, c) ==
    [i \in 1 .. Len(payload) |->
        [k \in (DOMAIN payload[i]) \ {c} |-> payload[i][k]]]

Payloads(date) ==
    {<<>>, FleetPayload(date)}
    \cup {<<RawRecord(id, closed, TRUE, avail, date)>> :
             id \in OddIds, closed \in BOOLEAN, avail \in AvailValues}
    \cup {<<RawRecord(id, closed, FALSE, 0, date), RawRecord(a, FALSE, TRUE, 0, date)>> :
             id \in OddIds, closed \in BOOLEAN, a \in AnchorIds}
    \cup {DropColumn(<<RawRecord(id, FALSE, TRUE, 0, date)>>, c) :
             id \in OddIds, c \in REQUIRED_COLUMNS_SET}

\* The batches of the differ harness: any records of two facilities, the same
\* facility twice included.
DiffIds == {1, 2}
DiffPayloads == UNION {SeqsUpTo(RawRecords(DiffIds, d), MaxBatchLen) : d \in Dates}

----------------------------------------------------------------------------
(* load_new_json: the JSON array as a DataFrame *)

\* pd.DataFrame(list of dicts): the columns are the union of the keys, and a
\* record without a key gets NaN in that column.
DataFrame(payload) ==
    LET cols == UNION {DOMAIN payload[i] : i \in 1 .. Len(payload)}
    IN [columns |-> cols,
        rows |-> [i \in 1 .. Len(payload) |->
                    [c \in cols |-> IF c \in DOMAIN payload[i]
                                    THEN payload[i][c] ELSE NaN]]]

FileName(rid) == <<"data", rid, "json">>

\* Variant: the directory is created if missing, but never emptied.
rmtree_KeepsFiles(files) == files

\* lines 77-79: shutil.rmtree(output_path), os.makedirs(output_path)
rmtree(files) == {}

\* The file data_{request_id}.json of OUTPUT_PATH; opening a missing file raises.
load_new_json(files, rid) ==
    IF \E f \in files : f.name = FileName(rid)
    THEN [raised |-> "none",
          batch_df |-> DataFrame((CHOOSE f \in files : f.name = FileName(rid)).data)]
    ELSE [raised |-> "LoadError", batch_df |-> DataFrame(<<>>)]

----------------------------------------------------------------------------
(* rename_columns *)

\* Variant: the closed flag is renamed too.
columns_renamer_RenamesFerme(c) ==
    CASE c = "mv:currentValue" -> "nb_of_available_parking_spaces"
      [] c = "Parking_schema:identifier" -> "parking_id"
      [] c = "dct:date" -> "date"
      [] c = "ferme" -> "is_closed"
      [] OTHER -> c

columns_renamer(c) ==
    CASE c = "mv:currentValue" -> "nb_of_available_parking_spaces"
      [] c = "Parking_schema:identifier" -> "parking_id"
      [] c = "dct:date" -> "date"
      [] OTHER -> c

\* Variant: the check leaves dct:date out of the columns it requires.
rename_columns_ForgetsDate(df, required_columns_set) ==
    IF ~ ((required_columns_set \ {"dct:date"}) \subseteq df.columns)
    THEN [raised |-> "ValueError", args |-> {}, batch_df |-> df]
    ELSE LET newcols == {columns_renamer(c) : c \in df.columns}
         IN [raised |-> "none", args |-> {},
             batch_df |->
               [columns |-> newcols,
                rows |-> [i \in 1 .. Len(df.rows) |->
                            [d \in newcols |->
                               df.rows[i][CHOOSE c \in df.columns :
                                             columns_renamer(c) = d]]]]]

\* raised and args are the exception of line 168, ValueError(), and what it
\* was constructed with: nothing.
rename_columns(df, required_columns_set) ==
    IF ~ (required_columns_set \subseteq df.columns)
    THEN [raised |-> "ValueError", args |-> {}, batch_df |-> df]
    ELSE LET newcols == {columns_renamer(c) : c \in df.columns}
         IN [raised |-> "none", args |-> {},
             batch_df |->
               [columns |-> newcols,
                rows |-> [i \in 1 .. Len(df.rows) |->
                            [d \in newcols |->
                               df.rows[i][CHOOSE c \in df.columns :
                                             columns_renamer(c) = d]]]]]

----------------------------------------------------------------------------
(* parking_state_has_changed, collect_changes *)

\* Python's == on two cell values: NaN is equal to nothing, itself included.
PyEq(a, b) == a # NaN /\ b # NaN /\ a = b

HasId(state, parking_id) == \E i \in 1 .. Len(state) : state[i].parking_id = parking_id

\* df_state.loc[df_state["parking_id"] == parking_id, ...].iloc[0]
OldRow(state, parking_id) ==
    state[CHOOSE i \in 1 .. Len(state) :
            /\ state[i].parking_id = parking_id
            /\ \A j \in 1 .. (i - 1) : state[j].parking_id # parking_id]

\* Variant: a facility without a row in df_state is taken as unchanged.
parking_state_has_changed_KnownOnly(row, state) ==
    IF HasId(state, row.parking_id)
    THEN LET old_row == OldRow(state, row.parking_id)
         IN ~ (old_row.ferme = row.ferme
               /\ PyEq(old_row.nb_of_available_parking_spaces,
                       row.nb_of_available_parking_spaces))
    ELSE FALSE

parking_state_has_changed(row, state) ==
    IF HasId(state, row.parking_id)
    THEN LET old_row == OldRow(state, row.parking_id)
         IN IF old_row.ferme = row.ferme
               /\ PyEq(old_row.nb_of_available_parking_spaces,
                       row.nb_of_available_parking_spaces)
            THEN FALSE
            ELSE TRUE
    ELSE TRUE

\* row[columns_filter]
columns_filter(row) ==
    [parking_id |-> row.parking_id,
     ferme |-> row.ferme,
     nb_of_available_parking_spaces |-> row.nb_of_available_parking_spaces]

\* Variant: a known facility's row is not overwritten.
UpdateState_NoOverwrite(state, row) ==
    IF ~ HasId(state, row.parking_id)
    THEN Append(state, columns_filter(row))
    ELSE state

\* Variant: a changed row is always concatenated.
UpdateState_AppendsAlways(state, row) == Append(state, columns_filter(row))

\* Variant: the assignment for a known facility is not restricted to its row.
UpdateState_OverwritesAll(state, row) ==
    IF ~ HasId(state, row.parking_id)
    THEN Append(state, columns_filter(row))
    ELSE [i \in 1 .. Len(state) |-> columns_filter(row)]

\* The body of the if of collect_changes: append a new row or overwrite in place.
UpdateState(state, row) ==
    IF ~ HasId(state, row.parking_id)
    THEN Append(state, columns_filter(row))
    ELSE [i \in 1 .. Len(state) |->
            IF state[i].parking_id = row.parking_id
            THEN columns_filter(row) ELSE state[i]]

\* Variant: a changed row is put in front of the changes collected so far.
RECURSIVE CollectRows_NewestFirst(_, _, _)
CollectRows_NewestFirst(rows, changes, state) ==
    IF rows = <<>>
    THEN [changes_list |-> changes, df_state |-> state]
    ELSE LET row == Head(rows)
         IN IF parking_state_has_changed(row, state)
            THEN CollectRows_NewestFirst(Tail(rows), <<row>> \o changes,
                                         UpdateState(state, row))
            ELSE CollectRows_NewestFirst(Tail(rows), changes, state)

RECURSIVE CollectRows(_, _, _)
CollectRows(rows, changes, state) ==
    IF rows = <<>>
    THEN [changes_list |-> changes, df_state |-> state]
    ELSE LET row == Head(rows)
         IN IF parking_state_has_changed(row, state)
            THEN CollectRows(Tail(rows), Append(changes, row), UpdateState(state, row))
            ELSE CollectRows(Tail(rows), changes, state)

collect_changes(batch, state) == CollectRows(batch.rows, <<>>, state)

\* Variant: the check is off by one.
validate_df_state_length_OffByOne(state) == Len(state) > CEILING + 1

\* validate_df_state_length raises CriticalDataFrameError
validate_df_state_length(state) == Len(state) > CEILING

----------------------------------------------------------------------------
(* write_to_postgresql *)

\* The tuple of one INSERT
InsertRow(record_dict) ==
    [parking_id |-> record_dict.parking_id,
     nb_of_available_parking_spaces |-> record_dict.nb_of_available_parking_spaces,
     ferme |-> record_dict.ferme,
     date |-> record_dict.date]

\* cursor.execute, conn.commit and conn.rollback as the database sees them
Execute(d, record_dict) == [d EXCEPT !.txn = Append(@, InsertRow(record_dict))]

\* Variant: the transaction is ended without its rows being made durable.
Commit_Nothing(d) == [table |-> d.table, txn |-> <<>>]

Commit(d) == [table |-> d.table \o d.txn, txn |-> <<>>]

\* Variant: the failed transaction is left open.
Rollback_Nothing(d) == d

Rollback(d) == [d EXCEPT !.txn = <<>>]

RECURSIVE ExecuteRows(_, _, _)
ExecuteRows(d, changes, k) ==
    IF k = 0 THEN d
    ELSE Execute(ExecuteRows(d, changes, k - 1), changes[k])

\* fail_at = 0: nothing fails; 1..Len: that cursor.execute raises;
\* Len + 1: conn.commit raises.
write_to_postgresql(d, changes, fail_at) ==
    IF fail_at = 0
    THEN [db |-> Commit(ExecuteRows(d, changes, Len(changes))), raised |-> "none"]
    ELSE IF fail_at <= Len(changes)
    THEN [db |-> Rollback(ExecuteRows(d, changes, fail_at - 1)), raised |-> "InsertError"]
    ELSE [db |-> Rollback(ExecuteRows(d, changes, Len(changes))), raised |-> "CommitError"]

----------------------------------------------------------------------------
(* main *)

EmptyBatch == [columns |-> {}, rows |-> <<>>]

\* The plotter is another process; it is not running.
PlotterIdle ==
    /\ plot_pc = "idle"
    /\ database_connection_error_count = 0
    /\ query_result = [kind |-> "none", frame |-> EmptyBatch]
    /\ df_realtime = EmptyBatch
    /\ plot_error = "none"

Init ==
    /\ pc = "validate_env"
    /\ password \in BOOLEAN
    /\ conn = "unbound"
    /\ request_id = 1
    /\ df_state = <<>>
    /\ tmp_files = {}
    /\ batch_df = EmptyBatch
    /\ changes_list = <<>>
    /\ db = [table |-> <<>>, txn |-> <<>>]
    /\ error = "none"
    /\ response = "none"
    /\ tick0 = [df_state |-> <<>>, table |-> <<>>]
    /\ prev_lost = FALSE
    /\ lost = FALSE
    /\ calls = 0
    /\ PlotterIdle

\* Variant: main goes on to connect whether or not the password is set.
ValidateEnvPassword_NoCheck ==
    /\ pc = "validate_env"
    /\ pc' = "connect"
    /\ UNCHANGED <<password, conn, request_id, df_state, tmp_files, batch_df,
                   changes_list, db, error, response, tick0, prev_lost, lost, calls>>
    /\ UNCHANGED plotter_vars

\* line 291
ValidateEnvPassword ==
    /\ pc = "validate_env"
    /\ IF password
       THEN pc' = "connect" /\ error' = error
       ELSE pc' = "terminated" /\ error' = "EnvironmentError"
    /\ UNCHANGED <<password, conn, request_id, df_state, tmp_files, batch_df,
                   changes_list, db, response, tick0, prev_lost, lost, calls>>
    /\ UNCHANGED plotter_vars

\* line 294, and the finally block when the connection attempt raises:
\* conn was never bound, so "if conn" raises UnboundLocalError.
GetPostgresqlConnection ==
    /\ pc = "connect"
    /\ \E ok \in BOOLEAN :
         IF ok
         THEN conn' = "open" /\ pc' = "fetch" /\ error' = error
         ELSE conn' = conn /\ pc' = "terminated" /\ error' = "UnboundLocalError"
    /\ UNCHANGED <<password, request_id, df_state, tmp_files, batch_df,
                   changes_list, db, response, tick0, prev_lost, lost, calls>>
    /\ UNCHANGED plotter_vars

\* line 298: fetch_data_and_save empties OUTPUT_PATH, then requests the feed.
FetchDataAndSave ==
    /\ pc = "fetch"
    /\ request_id <= MaxRequestId
    /\ tick0' = [df_state |-> df_state, table |-> db.table]
    /\ prev_lost' = (error \in {"InsertError", "CommitError"})
    /\ \/ \* requests.get or response.json raises
          /\ tmp_files' = rmtree(tmp_files)
          /\ response' = "raised"
          /\ error' = "FetchError"
          /\ pc' = "backoff"
       \/ \* status_code # 200: logged, nothing saved
          /\ tmp_files' = rmtree(tmp_files)
          /\ response' = "not200"
          /\ error' = "none"
          /\ pc' = "listdir"
       \/ \* status_code = 200: the payload is saved as data_{request_id}.json
          \E data \in Payloads(request_id) :
            /\ tmp_files' = rmtree(tmp_files)
                               \cup {[name |-> FileName(request_id), data |-> data]}
            /\ response' = "ok200"
            /\ error' = "none"
            /\ pc' = "listdir"
    /\ UNCHANGED <<password, conn, request_id, df_state, batch_df,
                   changes_list, db, lost, calls>>
    /\ UNCHANGED plotter_vars

\* lines 299-300
LoadNewJson ==
    /\ pc = "listdir"
    /\ IF tmp_files # {}
       THEN LET r == load_new_json(tmp_files, request_id)
            IN IF r.raised = "none"
               THEN batch_df' = r.batch_df /\ pc' = "rename" /\ error' = error
               ELSE batch_df' = batch_df /\ pc' = "backoff" /\ error' = r.raised
       ELSE batch_df' = batch_df /\ pc' = "sleep" /\ error' = error
    /\ UNCHANGED <<password, conn, request_id, df_state, tmp_files,
                   changes_list, db, response, tick0, prev_lost, lost, calls>>
    /\ UNCHANGED plotter_vars

\* line 301
RenameColumns ==
    /\ pc = "rename"
    /\ LET r == rename_columns(batch_df, REQUIRED_COLUMNS_SET)
       IN IF r.raised = "none"
          THEN batch_df' = r.batch_df /\ pc' = "diff" /\ error' = error
          ELSE batch_df' = batch_df /\ pc' = "backoff" /\ error' = r.raised
    /\ UNCHANGED <<password, conn, request_id, df_state, tmp_files,
                   changes_list, db, response, tick0, prev_lost, lost, calls>>
    /\ UNCHANGED plotter_vars

\* Variant: an empty df_state is first filled from the last rows of the table.
CollectChanges_SeededFromTable ==
    /\ pc = "diff"
    /\ LET ids == {db.table[i].parking_id : i \in 1 .. Len(db.table)}
           firsts == SelectSeq([i \in 1 .. Len(db.table) |-> i],
                               LAMBDA i : \A j \in 1 .. (i - 1) :
                                   db.table[j].parking_id # db.table[i].parking_id)
           last(id) == db.table[CHOOSE i \in 1 .. Len(db.table) :
                          /\ db.table[i].parking_id = id
                          /\ \A j \in (i + 1) .. Len(db.table) :
                                db.table[j].parking_id # id]
           seeded == [k \in 1 .. Len(firsts) |->
                         columns_filter(last(db.table[firsts[k]].parking_id))]
           r == collect_changes(batch_df, IF df_state = <<>> THEN seeded ELSE df_state)
       IN /\ changes_list' = r.changes_list
          /\ df_state' = r.df_state
    /\ pc' = "validate"
    /\ UNCHANGED <<password, conn, request_id, tmp_files, batch_df, db,
                   error, response, tick0, prev_lost, lost, calls>>
    /\ UNCHANGED plotter_vars

\* line 302
CollectChanges ==
    /\ pc = "diff"
    /\ LET r == collect_changes(batch_df, df_state)
       IN /\ changes_list' = r.changes_list
          /\ df_state' = r.df_state
    /\ pc' = "validate"
    /\ UNCHANGED <<password, conn, request_id, tmp_files, batch_df, db,
                   error, response, tick0, prev_lost, lost, calls>>
    /\ UNCHANGED plotter_vars

\* Variant: CriticalDataFrameError is handled like any other exception.
ValidateDfStateLength_NoBreak ==
    /\ pc = "validate"
    /\ IF validate_df_state_length(df_state)
       THEN /\ error' = "CriticalDataFrameError"
            /\ pc' = "backoff"
       ELSE /\ error' = error
            /\ pc' = IF changes_list # <<>> THEN "persist" ELSE "sleep"
    /\ UNCHANGED <<password, conn, request_id, df_state, tmp_files, batch_df,
                   changes_list, db, response, tick0, prev_lost, lost, calls>>
    /\ UNCHANGED plotter_vars

\* Variant: the changes are written before the length of df_state is checked.
ValidateDfStateLength_WritesFirst ==
    /\ pc = "validate"
    /\ IF validate_df_state_length(df_state)
       THEN /\ db' = write_to_postgresql(db, changes_list, 0).db
            /\ error' = "CriticalDataFrameError"
            /\ conn' = "closed"
            /\ pc' = "terminated"
       ELSE /\ db' = db
            /\ error' = error
            /\ conn' = conn
            /\ pc' = IF changes_list # <<>> THEN "persist" ELSE "sleep"
    /\ UNCHANGED <<password, request_id, df_state, tmp_files, batch_df,
                   changes_list, response, tick0, prev_lost, lost, calls>>
    /\ UNCHANGED plotter_vars

\* Variant: write_to_postgresql is called without "if changes_list".
ValidateDfStateLength_AlwaysPersists ==
    /\ pc = "validate"
    /\ IF validate_df_state_length(df_state)
       THEN /\ error' = "CriticalDataFrameError"
            /\ conn' = "closed"
            /\ pc' = "terminated"
       ELSE /\ error' = error
            /\ conn' = conn
            /\ pc' = "persist"
    /\ UNCHANGED <<password, request_id, df_state, tmp_files, batch_df,
                   changes_list, db, response, tick0, prev_lost, lost, calls>>
    /\ UNCHANGED plotter_vars

\* lines 303-304, and on CriticalDataFrameError lines 309-312 and 316-319:
\* break, then the finally block closes the connection.
ValidateDfStateLength ==
    /\ pc = "validate"
    /\ IF validate_df_state_length(df_state)
       THEN /\ error' = "CriticalDataFrameError"
            /\ conn' = "closed"
            /\ pc' = "terminated"
       ELSE /\ error' = error
            /\ conn' = conn
            /\ pc' = IF changes_list # <<>> THEN "persist" ELSE "sleep"
    /\ UNCHANGED <<password, request_id, df_state, tmp_files, batch_df,
                   changes_list, db, response, tick0, prev_lost, lost, calls>>
    /\ UNCHANGED plotter_vars

\* line 305, on a connection that is up
WriteToPostgresql ==
    /\ pc = "persist"
    /\ conn = "open"
    /\ \E fail_at \in 0 .. (Len(changes_list) + 1) :
         LET r == write_to_postgresql(db, changes_list, fail_at)
         IN /\ db' = r.db
            /\ error' = r.raised
            /\ lost' = (lost \/ r.raised # "none")
            /\ pc' = IF r.raised = "none" THEN "sleep" ELSE "backoff"
    /\ UNCHANGED <<password, conn, request_id, df_state, tmp_files, batch_df,
                   changes_list, response, tick0, prev_lost, calls>>
    /\ UNCHANGED plotter_vars

\* lines 306-307
Sleep ==
    /\ pc = "sleep"
    /\ request_id' = request_id + 1
    /\ pc' = "fetch"
    /\ UNCHANGED <<password, conn, df_state, tmp_files, batch_df,
                   changes_list, db, error, response, tick0, prev_lost, lost, calls>>
    /\ UNCHANGED plotter_vars

\* Variant: the except clause advances request_id like the end of the try block.
Backoff_Advances ==
    /\ pc = "backoff"
    /\ pc' = "fetch"
    /\ request_id' = request_id + 1
    /\ UNCHANGED <<password, conn, df_state, tmp_files, batch_df,
                   changes_list, db, error, response, tick0, prev_lost, lost, calls>>
    /\ UNCHANGED plotter_vars

\* Variant: the exception leaves the loop, through the finally block.
Backoff_Exits ==
    /\ pc = "backoff"
    /\ pc' = "terminated"
    /\ conn' = "closed"
    /\ UNCHANGED <<password, request_id, df_state, tmp_files, batch_df,
                   changes_list, db, error, response, tick0, prev_lost, lost, calls>>
    /\ UNCHANGED plotter_vars

\* lines 313-315
Backoff ==
    /\ pc = "backoff"
    /\ pc' = "fetch"
    /\ UNCHANGED <<password, conn, request_id, df_state, tmp_files, batch_df,
                   changes_list, db, error, response, tick0, prev_lost, lost, calls>>
    /\ UNCHANGED plotter_vars

\* Variant: the connection is closed by the handler of CriticalDataFrameError
\* only, not by a finally block.
Interrupt_NoFinally ==
    /\ conn = "open"
    /\ pc \in {"fetch", "listdir", "rename", "diff", "validate", "persist", "sleep", "backoff"}
    /\ error' = "KeyboardInterrupt"
    /\ pc' = "terminated"
    /\ UNCHANGED <<password, conn, request_id, df_state, tmp_files, batch_df,
                   changes_list, db, response, tick0, prev_lost, lost, calls>>
    /\ UNCHANGED plotter_vars

\* An exception that "except Exception" does not catch (KeyboardInterrupt,
\* SystemExit), raised anywhere in the loop: it leaves main through the
\* finally block, lines 316-319.
Interrupt ==
    /\ conn = "open"
    /\ pc \in {"fetch", "listdir", "rename", "diff", "validate", "persist", "sleep", "backoff"}
    /\ error' = "KeyboardInterrupt"
    /\ conn' = "closed"
    /\ pc' = "terminated"
    /\ UNCHANGED <<password, request_id, df_state, tmp_files, batch_df,
                   changes_list, db, response, tick0, prev_lost, lost, calls>>
    /\ UNCHANGED plotter_vars

Next ==
    \/ ValidateEnvPassword
    \/ GetPostgresqlConnection
    \/ FetchDataAndSave
    \/ LoadNewJson
    \/ RenameColumns
    \/ CollectChanges
    \/ ValidateDfStateLength
    \/ WriteToPostgresql
    \/ Sleep
    \/ Backoff

Spec == Init /\ [][Next]_vars

\* main started again: df_state is empty (line 288), the table holds what an
\* earlier run committed.
PreviousPayloads ==
    {<<RawRecord(id, FALSE, TRUE, 0, 0)>> : id \in OddIds} \cup {FleetPayload(0)}

PreviousTables ==
    {write_to_postgresql(
         [table |-> <<>>, txn |-> <<>>],
         collect_changes(rename_columns(DataFrame(p), REQUIRED_COLUMNS_SET).batch_df,
                         <<>>).changes_list,
         0).db.table : p \in PreviousPayloads}

InitRestart ==
    /\ pc = "validate_env"
    /\ password \in BOOLEAN
    /\ conn = "unbound"
    /\ request_id = 1
    /\ df_state = <<>>
    /\ tmp_files = {}
    /\ batch_df = EmptyBatch
    /\ changes_list = <<>>
    /\ \E t \in PreviousTables : db = [table |-> t, txn |-> <<>>]
    /\ error = "none"
    /\ response = "none"
    /\ tick0 = [df_state |-> <<>>, table |-> db.table]
    /\ prev_lost = FALSE
    /\ lost = FALSE
    /\ calls = 0
    /\ PlotterIdle

SpecRestart == InitRestart /\ [][Next]_vars

\* line 305 when the server or the network drops the connection: the call
\* raises, the server discards the transaction, and conn, which main keeps
\* using, is dead ("lost").
ConnectionLost ==
    /\ pc = "persist"
    /\ conn = "open"
    /\ conn' = "lost"
    /\ db' = [db EXCEPT !.txn = <<>>]
    /\ error' = "InsertError"
    /\ lost' = TRUE
    /\ pc' = "backoff"
    /\ UNCHANGED <<password, request_id, df_state, tmp_files, batch_df,
                   changes_list, response, tick0, prev_lost, calls>>
    /\ UNCHANGED plotter_vars

\* line 305 on the dead connection: cursor.execute raises, and so does the
\* rollback of the except clause; nothing reaches the table.
WriteOnLostConnection ==
    /\ pc = "persist"
    /\ conn = "lost"
    /\ error' = "InsertError"
    /\ lost' = TRUE
    /\ pc' = "backoff"
    /\ UNCHANGED <<password, conn, request_id, df_state, tmp_files, batch_df,
                   changes_list, db, response, tick0, prev_lost, calls>>
    /\ UNCHANGED plotter_vars

\* main with a connection that can be lost
NextLossy == Next \/ ConnectionLost \/ WriteOnLostConnection

SpecLossy == Init /\ [][NextLossy]_vars

\* main as a process that can be interrupted
NextInterruptible == Next \/ Interrupt

SpecInterruptible == Init /\ [][NextInterruptible]_vars

\* The loop keeps running: time.sleep returns, and the next iteration of
\* "while True" makes its request.
FairSpec == Spec /\ WF_vars(Backoff) /\ WF_vars(FetchDataAndSave)

----------------------------------------------------------------------------
(* The differ on its own: collect_changes applied to any State Store and any *)
(* batch, and then once more with the same batch on the returned state.     *)

StateValues == {[ferme |-> c, nb_of_available_parking_spaces |-> a] :
                  c \in BOOLEAN, a \in AvailValues \cup {NaN}}

\* The State Stores collect_changes builds from the empty one over DiffIds.
StateStores ==
    {<<>>}
    \cup {<<[parking_id |-> id] @@ v>> : id \in DiffIds, v \in StateValues}
    \cup {<<[parking_id |-> ids[1]] @@ v1, [parking_id |-> ids[2]] @@ v2>> :
             ids \in {p \in DiffIds \X DiffIds : p[1] # p[2]},
             v1 \in StateValues, v2 \in StateValues}

InitDiff ==
    /\ pc = "differ"
    /\ password = TRUE
    /\ conn = "unbound"
    /\ request_id = 1
    /\ df_state \in StateStores
    /\ tmp_files = {}
    /\ batch_df = EmptyBatch
    /\ changes_list = <<>>
    /\ db = [table |-> <<>>, txn |-> <<>>]
    /\ error = "none"
    /\ response = "none"
    /\ tick0 = [df_state |-> df_state, table |-> <<>>]
    /\ prev_lost = FALSE
    /\ lost = FALSE
    /\ calls = 0
    /\ PlotterIdle

\* collect_changes(batch_df, df_state) on a batch as main prepares it
DiffFirst ==
    /\ pc = "differ"
    /\ calls = 0
    /\ \E data \in DiffPayloads :
         LET b == rename_columns(DataFrame(data), REQUIRED_COLUMNS_SET)
             r == collect_changes(b.batch_df, df_state)
         IN /\ b.raised = "none"
            /\ batch_df' = b.batch_df
            /\ changes_list' = r.changes_list
            /\ df_state' = r.df_state
    /\ tick0' = [df_state |-> df_state, table |-> <<>>]
    /\ calls' = 1
    /\ UNCHANGED <<pc, password, conn, request_id, tmp_files, db, error, response, prev_lost, lost>>
    /\ UNCHANGED plotter_vars

\* the same batch again, on the state the first call returned
DiffAgain ==
    /\ pc = "differ"
    /\ calls = 1
    /\ LET r == collect_changes(batch_df, df_state)
       IN /\ changes_list' = r.changes_list
          /\ df_state' = r.df_state
    /\ calls' = 2
    /\ UNCHANGED <<pc, password, conn, request_id, tmp_files, batch_df, db, error, response, tick0, prev_lost, lost>>
    /\ UNCHANGED plotter_vars

\* lines 304-305 after the first call: the changes are written, if there are any
DiffPersist ==
    /\ pc = "differ"
    /\ calls = 1
    /\ changes_list # <<>>
    /\ error = "none" /\ db.table = <<>>
    /\ \E fail_at \in 0 .. (Len(changes_list) + 1) :
         LET r == write_to_postgresql(db, changes_list, fail_at)
         IN /\ db' = r.db
            /\ error' = r.raised
            /\ lost' = (lost \/ r.raised # "none")
    /\ UNCHANGED <<pc, password, conn, request_id, df_state, tmp_files, batch_df,
                   changes_list, response, tick0, prev_lost, calls>>
    /\ UNCHANGED plotter_vars

NextDiff == DiffFirst \/ DiffPersist \/ DiffAgain

SpecDiff == InitDiff /\ [][NextDiff]_vars

----------------------------------------------------------------------------
(* load_new_json and rename_columns on their own: main's two steps applied  *)
(* to any saved snapshot, with columns the feed has beyond the required     *)
(* ones, and with any of its columns absent.                                *)

ExtraColumns == {"nom"}

\* A record of the feed with the columns main does not use.
FullRecords ==
    {r @@ [k \in ExtraColumns |-> "LPA"] : r \in RawRecords(OddIds, 1)}

\* A payload whose records all lack the columns of cs.
DropColumns(payload, cs) ==
    [i \in 1 .. Len(payload) |->
        [k \in (DOMAIN payload[i]) \ cs |-> payload[i][k]]]

RenamePayloads ==
    {DropColumns(p, cs) : p \in SeqsUpTo(FullRecords, MaxBatchLen),
                          cs \in SUBSET (REQUIRED_COLUMNS_SET \cup ExtraColumns)}

InitRename ==
    /\ pc = "listdir"
    /\ password = TRUE
    /\ conn = "open"
    /\ request_id = 1
    /\ df_state = <<>>
    /\ \E data \in RenamePayloads :
          tmp_files = {[name |-> FileName(1), data |-> data]}
    /\ batch_df = EmptyBatch
    /\ changes_list = <<>>
    /\ db = [table |-> <<>>, txn |-> <<>>]
    /\ error = "none"
    /\ response = "ok200"
    /\ tick0 = [df_state |-> <<>>, table |-> <<>>]
    /\ prev_lost = FALSE
    /\ lost = FALSE
    /\ calls = 0
    /\ PlotterIdle

NextRename == LoadNewJson \/ RenameColumns

SpecRename == InitRename /\ [][NextRename]_vars

----------------------------------------------------------------------------
(* The plotter (realtime_plotter/src/scripts/plot_realtime.py):             *)
(* DataHandler.get_realtime_dataframe and main.                             *)

MAX_FAILURES == 5     \* main: "if database_connection_error_count > 5"

TableColumns == {"parking_id", "nb_of_available_parking_spaces", "ferme", "date"}

\* Rows of the table as the collector writes them
TableRows ==
    {[parking_id |-> id, nb_of_available_parking_spaces |-> a, ferme |-> FALSE, date |-> d] :
        id \in OddIds \cup AnchorIds, a \in AvailValues, d \in Dates}

\* What the try block of get_realtime_dataframe can end with: an exception of
\* create_engine or pd.read_sql_query, the value None, or a frame, which is
\* empty when the table has no row.
QueryResults ==
    {[kind |-> k, frame |-> EmptyBatch] : k \in {"raised", "None"}}
    \cup {[kind |-> "frame", frame |-> [columns |-> TableColumns, rows |-> r]] :
             r \in SeqsUpTo(TableRows, MaxBatchLen)}

\* df_realtime.empty
empty(df) == df.rows = <<>> \/ df.columns = {}

\* Variant: the frame of an empty table is returned.
get_realtime_dataframe_AllowsEmpty(result) ==
    IF result.kind = "raised"
    THEN [raised |-> "DatabaseOperationError", returned |-> FALSE, df_realtime |-> EmptyBatch]
    ELSE IF result.kind = "None"
    THEN [raised |-> "DatabaseOperationError", returned |-> FALSE, df_realtime |-> EmptyBatch]
    ELSE [raised |-> "none", returned |-> TRUE, df_realtime |-> result.frame]

get_realtime_dataframe(result) ==
    IF result.kind = "raised"
    THEN [raised |-> "DatabaseOperationError", returned |-> FALSE, df_realtime |-> EmptyBatch]
    ELSE IF result.kind = "None"
    THEN [raised |-> "DatabaseOperationError", returned |-> FALSE, df_realtime |-> EmptyBatch]
    ELSE IF empty(result.frame)
    THEN [raised |-> "DatabaseOperationError", returned |-> FALSE, df_realtime |-> EmptyBatch]
    ELSE [raised |-> "none", returned |-> TRUE, df_realtime |-> result.frame]

\* The collector's variables while the plotter is looked at
CollectorIdle ==
    /\ pc = "idle"
    /\ conn = "unbound"
    /\ request_id = 1
    /\ df_state = <<>>
    /\ tmp_files = {}
    /\ batch_df = EmptyBatch
    /\ changes_list = <<>>
    /\ db = [table |-> <<>>, txn |-> <<>>]
    /\ error = "none"
    /\ response = "none"
    /\ tick0 = [df_state |-> <<>>, table |-> <<>>]
    /\ prev_lost = FALSE
    /\ lost = FALSE
    /\ calls = 0

collector_vars == <<pc, password, conn, request_id, df_state, tmp_files, batch_df,
                    changes_list, db, error, response, tick0, prev_lost, lost, calls>>

\* main, lines 895-899
InitPlotter ==
    /\ CollectorIdle
    /\ password \in BOOLEAN
    /\ plot_pc = "validate_env"
    /\ database_connection_error_count = 0
    /\ query_result = [kind |-> "none", frame |-> EmptyBatch]
    /\ df_realtime = EmptyBatch
    /\ plot_error = "none"

\* line 902: EnvironmentError is not caught by main
PlotValidateEnvPassword ==
    /\ plot_pc = "validate_env"
    /\ IF password
       THEN plot_pc' = "update_sources" /\ plot_error' = plot_error
       ELSE plot_pc' = "raised" /\ plot_error' = "EnvironmentError"
    /\ UNCHANGED <<database_connection_error_count, query_result, df_realtime>>
    /\ UNCHANGED collector_vars

\* line 906, handler.update_sources() with its get_realtime_dataframe (line
\* 369), and on DatabaseOperationError the except clause, lines 930-937
PlotUpdateSources ==
    /\ plot_pc = "update_sources"
    /\ \E result \in QueryResults :
         LET r == get_realtime_dataframe(result)
         IN /\ query_result' = result
            /\ plot_error' = r.raised
            /\ IF r.returned
               THEN /\ df_realtime' = r.df_realtime
                    /\ database_connection_error_count' = database_connection_error_count
                    /\ plot_pc' = "serving"
               ELSE /\ df_realtime' = df_realtime
                    /\ database_connection_error_count' = database_connection_error_count + 1
                    /\ plot_pc' = IF database_connection_error_count + 1 > MAX_FAILURES
                                  THEN "raised" ELSE "sleep"
    /\ UNCHANGED collector_vars

\* line 938: time.sleep(60), after which main returns
PlotSleep ==
    /\ plot_pc = "sleep"
    /\ plot_pc' = "returned"
    /\ UNCHANGED <<database_connection_error_count, query_result, df_realtime, plot_error>>
    /\ UNCHANGED collector_vars

\* line 928: update_sources as the periodic callback of the document, after
\* main has returned; what it raises is not main's to catch
PeriodicCallback ==
    /\ plot_pc = "serving"
    /\ \E result \in QueryResults :
         LET r == get_realtime_dataframe(result)
         IN /\ query_result' = result
            /\ plot_error' = r.raised
            /\ df_realtime' = IF r.returned THEN r.df_realtime ELSE df_realtime
    /\ UNCHANGED <<plot_pc, database_connection_error_count>>
    /\ UNCHANGED collector_vars

NextPlotter ==
    \/ PlotValidateEnvPassword
    \/ PlotUpdateSources
    \/ PlotSleep
    \/ PeriodicCallback

SpecPlotter == InitPlotter /\ [][NextPlotter]_vars

----------------------------------------------------------------------------
(* Vocabulary of the properties *)

\* The State Store as the mapping facility -> (is_closed, available_spaces)
StoreMap(state) ==
    [id \in {state[i].parking_id : i \in 1 .. Len(state)} |->
        LET e == state[CHOOSE i \in 1 .. Len(state) : state[i].parking_id = id]
        IN [ferme |-> e.ferme,
            nb_of_available_parking_spaces |-> e.nb_of_available_parking_spaces]]

Reading(r) ==
    [ferme |-> r.ferme,
     nb_of_available_parking_spaces |-> r.nb_of_available_parking_spaces]

\* The records that are a change, each judged against the mapping as the
\* records before it left it: no entry, or another closed flag, or another
\* number of available spaces (a missing number is the same as a missing number).
RECURSIVE ExpectedChanges(_, _)
ExpectedChanges(rows, m) ==
    IF rows = <<>> THEN <<>>
    ELSE LET r == Head(rows)
             id == r.parking_id
         IN IF \/ id \notin DOMAIN m
               \/ m[id].ferme # r.ferme
               \/ m[id].nb_of_available_parking_spaces # r.nb_of_available_parking_spaces
            THEN <<r>> \o ExpectedChanges(Tail(rows),
                                          [x \in DOMAIN m \cup {id} |->
                                              IF x = id THEN Reading(r) ELSE m[x]])
            ELSE ExpectedChanges(Tail(rows), m)

HasNull(rows) ==
    \E i \in 1 .. Len(rows) : rows[i].nb_of_available_parking_spaces = NaN

\* Some facility occurs twice in the batch with two different readings.
RepeatsWithOtherReading(rows) ==
    \E i, j \in 1 .. Len(rows) :
        /\ rows[i].parking_id = rows[j].parking_id
        /\ Reading(rows[i]) # Reading(rows[j])

----------------------------------------------------------------------------
(* C1: collect_changes emits a record as a change if and only if, when the  *)
(* record is processed, its facility has no StateEntry or its is_closed or  *)
(* its available_spaces differs from that StateEntry.                       *)
C1_ChangeIffDiffers ==
    (pc = "differ" /\ calls = 1) =>
        changes_list = ExpectedChanges(batch_df.rows, StoreMap(tick0.df_state))

(* C2 as claimed: called again with the same batch on the returned state,   *)
(* collect_changes returns no change, whatever the batch.                   *)
C2_SecondCallEmpty ==
    (pc = "differ" /\ calls = 2) => changes_list = <<>>

(* C2 as amended: the second call with the same batch returns no change     *)
(* exactly when no record of the batch has a missing available_spaces and   *)
(* no facility occurs in the batch with two different readings.             *)
C2_SecondCallEmptyIff ==
    (pc = "differ" /\ calls = 2) =>
        (changes_list = <<>>
            <=> (~ HasNull(batch_df.rows) /\ ~ RepeatsWithOtherReading(batch_df.rows)))

\* Second call without change after a first call that did change the store,
\* on a batch that names one facility twice.
C2_Witness ==
    /\ pc = "differ" /\ calls = 2
    /\ changes_list = <<>>
    /\ df_state # tick0.df_state
    /\ Len(batch_df.rows) = 2
    /\ batch_df.rows[1].parking_id = batch_df.rows[2].parking_id

----------------------------------------------------------------------------
(* Vocabulary of the poll loop's properties *)

PersistErrors == {"InsertError", "CommitError"}

\* The rows of the table that belong to one facility, in the order written
RowsOf(table, id) == SelectSeq(table, LAMBDA row : row.parking_id = id)

\* The rows a change set stands for, in its order
RowsToInsert(changes) ==
    [i \in 1 .. Len(changes) |->
        [parking_id |-> changes[i].parking_id,
         nb_of_available_parking_spaces |-> changes[i].nb_of_available_parking_spaces,
         ferme |-> changes[i].ferme,
         date |-> changes[i].date]]

\* The snapshot saved in this tick lacks a required column.
SnapshotLacksColumn ==
    \E f \in tmp_files :
        ~ (REQUIRED_COLUMNS_SET \subseteq DataFrame(f.data).columns)

----------------------------------------------------------------------------
(* C3 as claimed: in every reachable state of the poll loop the State Store *)
(* holds at most 30 entries.                                                *)
C3_AtMostCeilingAlways == Len(df_state) <= CEILING

(* C3 as amended: the State Store holds more than 30 entries only between   *)
(* the diff that brought it there and the ceiling check of that tick, and   *)
(* after that check has ended the loop; every fetch, load, normalise, diff, *)
(* persist and sleep runs with at most 30 entries.                          *)
C3_AtMostCeilingOutsideCheck ==
    Len(df_state) > CEILING =>
        \/ pc = "validate"
        \/ pc = "terminated" /\ error = "CriticalDataFrameError"

\* The loop goes on to persist with exactly 30 entries.
C3_Witness ==
    pc = "persist" /\ Len(df_state) = CEILING /\ Len(tick0.df_state) < CEILING

C7_NoCarryOver ==
    [][ (pc = "diff" /\ prev_lost) =>
          /\ \A k \in 1 .. Len(changes_list') :
                \E i \in 1 .. Len(batch_df.rows) : changes_list'[k] = batch_df.rows[i]
          /\ \A i \in 1 .. Len(batch_df.rows) :
                LET r == batch_df.rows[i]
                    before == SelectSeq(changes_list,
                                        LAMBDA c : c.parking_id = r.parking_id)
                IN (/\ before # <<>>
                    /\ Reading(before[Len(before)]) = Reading(r)
                    /\ \A j \in 1 .. Len(batch_df.rows) :
                          batch_df.rows[j].parking_id = r.parking_id => j = i)
                   => \A k \in 1 .. Len(changes_list') :
                         changes_list'[k].parking_id # r.parking_id ]_vars

(* C8: within one run no two consecutive rows persisted for the same        *)
(* facility carry the same (is_closed, available_spaces).                   *)
C8_NoDuplicateRows ==
    \A id \in OddIds \cup AnchorIds \cup FleetIds :
        LET rows == RowsOf(db.table, id)
        IN \A k \in 1 .. (Len(rows) - 1) : Reading(rows[k]) # Reading(rows[k + 1])

(* C9: a fetch failure, a schema error or a persist failure never ends the   *)
(* loop: each sends main to the sleep of the except clause, after which     *)
(* the loop is back at the fetch and makes the next request; only the       *)
(* ceiling fault ends a loop that was entered.                              *)
RecoverableErrors == {"FetchError", "LoadError", "ValueError"} \cup PersistErrors

C9_RecoverableFaultsKeepPolling ==
    /\ [][ (error' \in RecoverableErrors /\ (error' # error \/ pc # "backoff")) =>
              pc' \in {"backoff", "fetch"} ]_vars
    /\ [][ (conn = "open" /\ pc' = "terminated") =>
              error' = "CriticalDataFrameError" ]_vars
    /\ (pc = "backoff" /\ error \in RecoverableErrors)
          ~> (pc = "fetch" /\ request_id <= MaxRequestId)
    /\ (pc = "fetch" /\ error \in RecoverableErrors)
          ~> (response # "none" /\ pc \in {"listdir", "backoff"})

\* Back at the fetch after a failed persist.
C9_Witness ==
    pc = "fetch" /\ error \in PersistErrors /\ request_id <= MaxRequestId

(* C10: a tick whose request raised or was answered with a non-success      *)
(* status, or whose snapshot lacks a required column, leaves the State      *)
(* Store as it was when the tick started and writes no row.                 *)
C10_FaultyFetchAbandonsTick ==
    (response \in {"raised", "not200"} \/ SnapshotLacksColumn) =>
        /\ df_state = tick0.df_state
        /\ db = [table |-> tick0.table, txn |-> <<>>]
        /\ pc \in {"listdir", "rename", "sleep", "backoff", "fetch"}

\* A snapshot with a record but without a required column, abandoned with a
\* State Store and a table that are not empty.
C10_Witness ==
    /\ pc = "backoff"
    /\ error = "ValueError"
    /\ batch_df.rows # <<>>
    /\ df_state # <<>>
    /\ db.table # <<>>

----------------------------------------------------------------------------
\* The current tick's fetch produced no usable data: no snapshot was saved
\* (non-success status), or the snapshot is an empty array of records.
NoUsableData ==
    \/ response = "not200"
    \/ response = "ok200" /\ \E f \in tmp_files : f.data = <<>>

(* C11: a tick whose fetch produced no usable data (no snapshot after a     *)
(* non-success response, or an empty array of records) goes on to the       *)
(* normal sleep without a diff or a persist, and the sleep advances         *)
(* request_id by one; it never goes to the sleep of the except clause.      *)
C11_NoDataSkipsAndAdvances ==
    [][ (NoUsableData /\ pc \in {"listdir", "rename", "sleep"}) =>
          /\ pc' \in {"rename", "sleep", "fetch"}
          /\ pc' = "fetch" => request_id' = request_id + 1
          /\ UNCHANGED <<df_state, db>> ]_vars

----------------------------------------------------------------------------
\* The record is the first of its facility in the batch, and the State Store
\* the call was given has no entry for the facility.
FirstSighting(rows, i, state) ==
    /\ ~ HasId(state, rows[i].parking_id)
    /\ \A j \in 1 .. (i - 1) : rows[j].parking_id # rows[i].parking_id

(* C12: a record whose facility has no StateEntry when it is processed is   *)
(* in the changes whatever its values are (a missing number included), as   *)
(* the first change of its facility, and the returned state has one new     *)
(* entry for the facility, behind the entries it had, holding the record's  *)
(* (is_closed, available_spaces) unless a later record of the batch         *)
(* replaces it.                                                             *)
C12_FirstSighting ==
    (pc = "differ" /\ calls = 1) =>
        \A i \in 1 .. Len(batch_df.rows) :
            LET r == batch_df.rows[i]
            IN FirstSighting(batch_df.rows, i, tick0.df_state) =>
                 /\ \E k \in 1 .. Len(changes_list) :
                       /\ changes_list[k] = r
                       /\ \A n \in 1 .. (k - 1) :
                             changes_list[n].parking_id # r.parking_id
                 /\ \E n \in (Len(tick0.df_state) + 1) .. Len(df_state) :
                       /\ df_state[n].parking_id = r.parking_id
                       /\ \A m \in 1 .. Len(df_state) :
                             df_state[m].parking_id = r.parking_id => m = n
                       /\ (\A j \in (i + 1) .. Len(batch_df.rows) :
                              batch_df.rows[j].parking_id # r.parking_id)
                          => Reading(df_state[n]) = Reading(r)

\* A first sighting without a number of available spaces, of a closed
\* facility, added to a State Store that has an entry of another facility.
C12_Witness ==
    /\ pc = "differ" /\ calls = 1
    /\ tick0.df_state # <<>>
    /\ \E i \in 1 .. Len(batch_df.rows) :
          /\ FirstSighting(batch_df.rows, i, tick0.df_state)
          /\ batch_df.rows[i].nb_of_available_parking_spaces = NaN
          /\ batch_df.rows[i].ferme
          /\ \E k \in 1 .. Len(changes_list) : changes_list[k] = batch_df.rows[i]

----------------------------------------------------------------------------
\* The facility of record i has no other record in the batch.
OnlyRecordOfFacility(rows, i) ==
    \A j \in 1 .. Len(rows) : rows[j].parking_id = rows[i].parking_id => j = i

(* C13: a record whose facility has a StateEntry with the same is_closed    *)
(* and the same available_spaces (a missing number being the same as a      *)
(* missing number) is not in the changes, and the returned state holds that *)
(* StateEntry as it was.                                                    *)
C13_ExactMatchIsNoChange ==
    (pc = "differ" /\ calls = 1) =>
        \A i \in 1 .. Len(batch_df.rows) :
            LET r == batch_df.rows[i]
            IN (/\ OnlyRecordOfFacility(batch_df.rows, i)
                /\ HasId(tick0.df_state, r.parking_id)
                /\ Reading(OldRow(tick0.df_state, r.parking_id)) = Reading(r))
               => /\ \A k \in 1 .. Len(changes_list) :
                        changes_list[k].parking_id # r.parking_id
                  /\ OldRow(df_state, r.parking_id)
                        = OldRow(tick0.df_state, r.parking_id)

----------------------------------------------------------------------------
\* The State Store as the records before record i of the batch left it.
StateBefore(rows, i, state) == CollectRows(SubSeq(rows, 1, i - 1), <<>>, state).df_state

\* The records of rows at the positions of I, in the order of rows.
Pick(rows, I) ==
    LET idx == SelectSeq([i \in 1 .. Len(rows) |-> i], LAMBDA i : i \in I)
    IN [k \in 1 .. Len(idx) |-> rows[idx[k]]]

(* C14: the changes returned by collect_changes are the records of the      *)
(* batch that were judged changed when they were processed, one entry per   *)
(* such occurrence, in the order of the batch; and the rows that            *)
(* write_to_postgresql puts in the table are the rows of these changes in   *)
(* that same order.                                                         *)
C14_ChangesInBatchOrder ==
    (pc = "differ" /\ calls = 1) =>
        /\ changes_list =
              Pick(batch_df.rows,
                   {i \in 1 .. Len(batch_df.rows) :
                       parking_state_has_changed(
                           batch_df.rows[i],
                           StateBefore(batch_df.rows, i, tick0.df_state))})
        /\ db.table # <<>> => db.table = RowsToInsert(changes_list)

\* A batch of two records whose second record only is a change, persisted.
C14_Witness ==
    /\ pc = "differ" /\ calls = 1
    /\ Len(batch_df.rows) = 2
    /\ db.table = RowsToInsert(changes_list)
    /\ changes_list = <<batch_df.rows[2]>>
    /\ batch_df.rows[1] # batch_df.rows[2]

----------------------------------------------------------------------------
\* The changes of one facility, in their order
ChangesOf(changes, id) == SelectSeq(changes, LAMBDA c : c.parking_id = id)

(* C15: the state returned by collect_changes is the input state with the   *)
(* changes applied: it keeps the input's entries in their places, has one   *)
(* entry per facility, for the facilities of the input and of the changes;  *)
(* a facility with a changed record holds the (is_closed, available_spaces) *)
(* of its last changed record, and the entry of any other facility, in the  *)
(* batch or not, is its entry of the input state.                           *)
C15_StateIsInputWithChangesApplied ==
    (pc = "differ" /\ calls = 1) =>
        /\ Len(df_state) >= Len(tick0.df_state)
        /\ \A n \in 1 .. Len(tick0.df_state) :
              df_state[n].parking_id = tick0.df_state[n].parking_id
        /\ \A n, m \in 1 .. Len(df_state) :
              df_state[n].parking_id = df_state[m].parking_id => n = m
        /\ \A k \in 1 .. Len(changes_list) : HasId(df_state, changes_list[k].parking_id)
        /\ \A n \in 1 .. Len(df_state) :
              LET ch == ChangesOf(changes_list, df_state[n].parking_id)
              IN IF ch # <<>>
                 THEN Reading(df_state[n]) = Reading(ch[Len(ch)])
                 ELSE /\ n <= Len(tick0.df_state)
                      /\ df_state[n] = tick0.df_state[n]

\* One facility changed twice by the batch, the other one, which is not in
\* the batch, kept.
C15_Witness ==
    /\ pc = "differ" /\ calls = 1
    /\ Len(tick0.df_state) = 2
    /\ Len(changes_list) = 2
    /\ changes_list[1].parking_id = changes_list[2].parking_id
    /\ Reading(changes_list[1]) # Reading(changes_list[2])
    /\ df_state # tick0.df_state

----------------------------------------------------------------------------
(* C16: in the poll loop, a record that differs from the StateEntry of its  *)
(* facility in nothing but the date is not emitted as a change, and every   *)
(* emitted change is a record of the batch as it is, its date included.     *)
C16_DateAloneIsNoChange ==
    (pc = "validate" /\ response = "ok200") =>
        /\ \A i \in 1 .. Len(batch_df.rows) :
              LET r == batch_df.rows[i]
              IN (/\ OnlyRecordOfFacility(batch_df.rows, i)
                  /\ HasId(tick0.df_state, r.parking_id)
                  /\ Reading(OldRow(tick0.df_state, r.parking_id)) = Reading(r))
                 => \A k \in 1 .. Len(changes_list) :
                       changes_list[k].parking_id # r.parking_id
        /\ \A k \in 1 .. Len(changes_list) :
              /\ \E i \in 1 .. Len(batch_df.rows) : changes_list[k] = batch_df.rows[i]
              /\ changes_list[k].date = request_id

----------------------------------------------------------------------------
(* C17: whenever main has stopped after get_postgresql_connection had       *)
(* returned a connection (by the ceiling fault, or by an exception that     *)
(* leaves the loop), the connection is closed; and it is closed by the      *)
(* step that stops main.                                                    *)
C17_ConnectionClosedOnExit ==
    /\ pc = "terminated" => conn # "open"
    /\ conn = "closed" => pc = "terminated"

\* main stopped by an interrupt after a tick that persisted rows.
C17_Witness ==
    /\ pc = "terminated"
    /\ error = "KeyboardInterrupt"
    /\ conn = "closed"
    /\ db.table # <<>>

----------------------------------------------------------------------------
(* C18: when get_postgresql_connection raises, main ends with that          *)
(* connection error (psycopg2's OperationalError) and no other one, and     *)
(* nothing was fetched, diffed or persisted.                                *)
C18_ConnectionFailurePropagates ==
    (pc = "terminated" /\ password /\ conn = "unbound") =>
        /\ error = "OperationalError"
        /\ response = "none"
        /\ df_state = <<>>
        /\ db = [table |-> <<>>, txn |-> <<>>]

----------------------------------------------------------------------------
(* C19: with the password absent or empty, main stops at                    *)
(* validate_env_password with EnvironmentError: it makes no connection      *)
(* attempt and no request, and the password is never given a value.         *)
C19_MissingPasswordIsFatal ==
    ~ password =>
        /\ pc \in {"validate_env", "terminated"}
        /\ pc = "terminated" => error = "EnvironmentError"
        /\ conn = "unbound"
        /\ response = "none"
        /\ tmp_files = {}
        /\ db = [table |-> <<>>, txn |-> <<>>]

\* main stopped by the missing password.
C19_Witness ==
    /\ ~ password
    /\ pc = "terminated"
    /\ error = "EnvironmentError"
    /\ conn = "unbound"

----------------------------------------------------------------------------
(* C20: when the snapshot lacks a required column, the ValueError that      *)
(* rename_columns raised for main's batch_df carries the required column    *)
(* names that the snapshot lacks, and no other.                             *)
C20_SchemaErrorNamesMissingColumns ==
    (pc = "backoff" /\ error = "ValueError") =>
        rename_columns(batch_df, REQUIRED_COLUMNS_SET).args
            = REQUIRED_COLUMNS_SET \ batch_df.columns

----------------------------------------------------------------------------
\* The frame load_new_json made of the snapshot saved in this tick.
LoadedFrame == DataFrame((CHOOSE f \in tmp_files : TRUE).data)

UpstreamNames == {"mv:currentValue", "Parking_schema:identifier", "dct:date"}
CanonicalNames == {"nb_of_available_parking_spaces", "parking_id", "date"}

(* C21: rename_columns raises if and only if a required column is missing   *)
(* from the frame; otherwise the frame it returns has the columns of the    *)
(* loaded frame with mv:currentValue, Parking_schema:identifier and         *)
(* dct:date replaced by nb_of_available_parking_spaces, parking_id and      *)
(* date, as many rows, and in every row the values of the loaded frame,     *)
(* under the new name for these three and under the same name for any       *)
(* other column.                                                            *)
C21_RenameColumns ==
    (pc \in {"diff", "backoff"}) =>
        LET df == LoadedFrame
        IN /\ error = "ValueError" <=> ~ (REQUIRED_COLUMNS_SET \subseteq df.columns)
           /\ error = "none" <=> pc = "diff"
           /\ pc = "diff" =>
                /\ batch_df.columns = (df.columns \ UpstreamNames) \cup CanonicalNames
                /\ Len(batch_df.rows) = Len(df.rows)
                /\ \A i \in 1 .. Len(df.rows) :
                      /\ batch_df.rows[i]["nb_of_available_parking_spaces"]
                            = df.rows[i]["mv:currentValue"]
                      /\ batch_df.rows[i]["parking_id"]
                            = df.rows[i]["Parking_schema:identifier"]
                      /\ batch_df.rows[i]["date"] = df.rows[i]["dct:date"]
                      /\ \A c \in df.columns \ UpstreamNames :
                            batch_df.rows[i][c] = df.rows[i][c]

\* A renamed frame of two rows, one of them without a number of available
\* spaces, with a column that main does not use.
C21_Witness ==
    /\ pc = "diff"
    /\ Len(batch_df.rows) = 2
    /\ ExtraColumns \subseteq batch_df.columns
    /\ batch_df.rows[1]["nb_of_available_parking_spaces"] = NaN
    /\ batch_df.rows[2]["nb_of_available_parking_spaces"] # NaN

----------------------------------------------------------------------------
\* Every facility of the batch is in the changes.
AllFacilitiesEmitted ==
    \A i \in 1 .. Len(batch_df.rows) :
        \E k \in 1 .. Len(changes_list) :
            changes_list[k].parking_id = batch_df.rows[i].parking_id

----------------------------------------------------------------------------
(* C23: main handles reconnection: when a persist has failed because the    *)
(* connection was lost, main has a live connection again by the time a      *)
(* later change set is to be persisted.                                     *)
C23_ReconnectsBeforeNextPersist ==
    pc = "persist" => conn = "open"

----------------------------------------------------------------------------
(* C24: the plotter's main ends after a DatabaseOperationError only by      *)
(* re-raising it, and only once more than five attempts have failed: until  *)
(* then it tries the database operation again.                              *)
C24_RetriesFiveTimes ==
    (database_connection_error_count > 0 /\ plot_pc \in {"returned", "raised"}) =>
        /\ plot_pc = "raised"
        /\ plot_error = "DatabaseOperationError"
        /\ database_connection_error_count > MAX_FAILURES

----------------------------------------------------------------------------
----------------------------------------------------------------------------
\* The positions main can go to from a position of the loop
StepsAfter(p) ==
    CASE p = "fetch" -> {"listdir", "backoff"}
      [] p = "listdir" -> {"rename", "sleep", "backoff"}
      [] p = "rename" -> {"diff", "backoff"}
      [] p = "diff" -> {"validate"}
      [] p = "validate" -> {"persist", "sleep", "terminated"}
      [] p = "persist" -> {"sleep", "backoff"}
      [] p = "sleep" -> {"fetch"}
      [] p = "backoff" -> {"fetch"}
      [] OTHER -> {"connect", "fetch", "terminated"}

(* C26: the steps of a tick run one after the other in the order fetch,     *)
(* load and normalise, diff, ceiling check, persist; a new fetch starts     *)
(* only after the sleep or the except clause that ends the tick before it;  *)
(* and the persist is entered only from the ceiling check, with the store   *)
(* within the ceiling and a change set that is not empty.                   *)
C26_StepsInOrder ==
    [][ /\ pc' \in StepsAfter(pc)
        /\ (tick0' # tick0 \/ tmp_files' # tmp_files \/ response' # response)
              => (pc = "fetch" /\ pc' \in {"listdir", "backoff"})
        /\ pc' = "fetch" => pc \in {"connect", "sleep", "backoff"}
        /\ pc' = "persist" =>
              /\ pc = "validate"
              /\ changes_list # <<>>
              /\ Len(df_state) <= CEILING
              /\ UNCHANGED <<changes_list, df_state, db>> ]_vars

\* The second tick at its persist with the fleet's change set.
C26_Witness ==
    /\ pc = "persist"
    /\ request_id = 2
    /\ Len(changes_list) > 2
    /\ tick0.df_state # <<>>

----------------------------------------------------------------------------
(* C27: request_id never decreases; the sleep that ends an iteration which  *)
(* raised nothing adds exactly one to it; no other step changes it, so an   *)
(* iteration abandoned on a recoverable error goes back to the fetch with   *)
(* the request_id it had.                                                   *)
C27_RequestIdAdvancesOnCompletedTicks ==
    [][ /\ request_id' >= request_id
        /\ pc = "sleep" => (request_id' = request_id + 1 /\ pc' = "fetch")
        /\ pc # "sleep" => request_id' = request_id
        /\ pc = "backoff" => (request_id' = request_id /\ pc' = "fetch") ]_vars

\* The snapshot of request 2 fetched again after the persist of request 2
\* had failed.
C27_Witness ==
    /\ pc = "listdir"
    /\ request_id = 2
    /\ prev_lost
    /\ \E f \in tmp_files : f.name = FileName(2)

----------------------------------------------------------------------------
(* C28: over the ticks of a run that started with the empty State Store, a  *)
(* facility that has an entry keeps having one, the entries keep their      *)
(* places, and no two entries are of the same facility.                     *)
C28_StoreGrowsOneEntryPerFacility ==
    [][ /\ Len(df_state') >= Len(df_state)
        /\ \A i \in 1 .. Len(df_state) :
              df_state'[i].parking_id = df_state[i].parking_id
        /\ \A n, m \in 1 .. Len(df_state') :
              df_state'[n].parking_id = df_state'[m].parking_id => n = m ]_vars

\* The store filled up to the ceiling over two ticks, the facility of the
\* first tick still in it.
C28_Witness ==
    /\ pc = "sleep"
    /\ Len(df_state) = CEILING
    /\ Len(tick0.df_state) = 1
    /\ df_state[1].parking_id = tick0.df_state[1].parking_id

----------------------------------------------------------------------------
(* C29: when the ceiling fault has ended the run, the table holds the rows  *)
(* it held when the last tick started and no transaction is open: none of   *)
(* the changes detected in that tick was written.                           *)
C29_CeilingTickWritesNothing ==
    (pc = "terminated" /\ error = "CriticalDataFrameError") =>
        /\ changes_list # <<>>
        /\ db = [table |-> tick0.table, txn |-> <<>>]

\* The run ended by the ceiling fault with rows of earlier ticks in the table.
C29_Witness ==
    /\ pc = "terminated"
    /\ error = "CriticalDataFrameError"
    /\ Len(changes_list) > 1
    /\ tick0.table # <<>>
    /\ db.table = tick0.table

----------------------------------------------------------------------------
(* C30: the snapshot directory holds nothing after a request that raised or *)
(* was answered with a non-success status, and otherwise the one snapshot   *)
(* of the request just made; main loads, diffs and persists only in a tick  *)
(* whose request was answered with a snapshot, and what it diffs and        *)
(* persists then is the frame of that snapshot.                             *)
C30_OnlyThisTicksSnapshot ==
    /\ response \in {"raised", "not200"} => tmp_files = {}
    /\ Cardinality(tmp_files) <= 1
    /\ pc \in {"rename", "diff", "validate", "persist"} =>
          /\ response = "ok200"
          /\ \E f \in tmp_files :
                /\ f.name = FileName(request_id)
                /\ pc = "rename" => batch_df = DataFrame(f.data)
                /\ pc # "rename" =>
                      batch_df = rename_columns(DataFrame(f.data),
                                                REQUIRED_COLUMNS_SET).batch_df
    /\ (pc \in {"sleep", "backoff"} /\ response # "ok200") =>
          (df_state = tick0.df_state /\ db.table = tick0.table)

\* A tick skipped on a non-success answer right after a tick whose snapshot
\* was diffed and whose persist failed: the old snapshot is gone.
C30_Witness ==
    /\ pc = "sleep"
    /\ response = "not200"
    /\ prev_lost
    /\ tmp_files = {}
    /\ changes_list # <<>>
    /\ db.table = tick0.table

====
